---- MODULE Spec2Model ----
(***************************************************************************)
(* A model of rsvim's text core: the per-line display width index          *)
(* (rsvim_core/src/buf/idx/widx.rs, BufWindex), the buffer's unicode       *)
(* width functions (rsvim_core/src/buf.rs, impl Buffer "Unicode"), the     *)
(* buffer ids (rsvim_core/src/buf.rs, next_buffer_id) and the window's     *)
(* viewport layout (rsvim_core/src/ui/widget/window/viewport.rs).          *)
(*                                                                         *)
(* Characters are unicode code points (integers).  Option<usize> is a      *)
(* sequence: None is << >> and Some(w) is << w >>.  A Rust panic (a failed *)
(* assert!, an unwrap() of None) is recorded by name in the result of the  *)
(* operation that raised it.                                               *)
(***************************************************************************)
EXTENDS Integers, Sequences, FiniteSets, TLC

VARIABLES
  rope_line,  \* the line (a sequence of chars) every BufWindex call is given
  options,    \* BufferLocalOptions: [tab_stop]
  windex,     \* BufWindex instances: k |-> [char2width, width2char]
  last,       \* per instance, the latest call on it and what it returned
  ucall,      \* the latest call of a Buffer unicode method and its result
  VALUE,      \* next_buffer_id's static AtomicI32
  new_id,     \* per thread, the id next_buffer_id returned for the Buffer it builds
  buffers,    \* the Buffers constructed so far, in order of construction
  buffer,     \* the BufferWk a viewport is laid out on: Some(the rope's chars), None once dropped
  vcall,      \* the latest call of collect_from_top_left and its result
  lock,       \* the RwLock of a BufferArc: the threads holding it and those waiting for it
  thread,     \* per thread, where it is in a layout call or in a write of the buffer
  text,       \* the version of the text behind the lock, one more after each write
  itree,      \* an Itree: its root and the children of each node
  iter,       \* an ItreeIterator on it and the nodes it has yielded so far
  frame       \* a canvas Frame

bufferIdVars == <<VALUE, new_id, buffers>>
viewportVars == <<buffer, vcall>>
lockVars == <<lock, thread, text>>
treeVars == <<itree, iter>>
uiVars == <<lockVars, treeVars, frame>>
vars == <<rope_line, options, windex, last, ucall, bufferIdVars, viewportVars, uiVars>>

----------------------------------------------------------------------------
(* Bounds of the model *)

\* Longest line given to a BufWindex; char indexes 0..MaxLineLen are queried,
\* so that index Len(rope_line) (out of range) is queried for every line.
MaxLineLen == 3

\* Longest string given to Buffer::str_width / Buffer::str_symbols.
MaxStrLen == 2

\* Values of the 'tab-stop' option.
TabStops == {4, 8}

\* The chars of the lines of the width index: 'A', U+4E00 (a CJK ideograph),
\* tab, line-feed, carriage-return.
LineChars == {65, 19968, 9, 10, 13}

\* The chars given to the Buffer unicode methods: those, plus U+0001 and
\* U+007F (ascii control codes), U+0085 (a C1 control code), U+00A1 (an
\* East-Asian ambiguous char), U+0301 (a combining mark).
UnicodeChars == LineChars \cup {1, 127, 133, 161, 769}

RECURSIVE SeqsUpTo(_, _)
SeqsUpTo(S, n) ==
  IF n = 0 THEN {<< >>}
  ELSE LET shorter == SeqsUpTo(S, n - 1)
       IN shorter \cup {Append(s, c) : s \in {t \in shorter : Len(t) = n - 1}, c \in S}

None == << >>
Some(w) == << w >>

----------------------------------------------------------------------------
(* char classes *)

\* char::is_ascii_control: U+0000..=U+001F and U+007F.
is_ascii_control(c) == (c >= 0 /\ c <= 31) \/ c = 127

\* East-Asian Wide / Fullwidth (CJK unified ideographs, Hangul syllables,
\* fullwidth forms): a part of the table of the unicode-width crate.
IsWide(c) ==
  \/ (c >= 19968 /\ c <= 40959)
  \/ (c >= 44032 /\ c <= 55203)
  \/ (c >= 65281 /\ c <= 65376)

\* East-Asian Ambiguous (U+00A1, U+00A4, U+00A7, U+00A8, Greek letters): a
\* part of the table.
IsAmbiguous(c) ==
  \/ c \in {161, 164, 167, 168}
  \/ (c >= 913 /\ c <= 929)
  \/ (c >= 945 /\ c <= 969)

\* Zero width chars (combining diacritical marks, U+200B..U+200F): a part
\* of the table.
IsZeroWidth(c) ==
  \/ (c >= 768 /\ c <= 879)
  \/ (c >= 8203 /\ c <= 8207)

\* UnicodeWidthChar::width_cjk (crate unicode-width) as called by
\* Buffer::char_width: None for a control code (C0 but NUL, DEL, C1), and in
\* the CJK context 2 for a wide and for an ambiguous char, 0 for a zero width
\* char, 1 otherwise.
width_cjk(c) ==
  IF c = 0 THEN Some(0)
  ELSE IF c < 32 THEN None
  ELSE IF c < 127 THEN Some(1)
  ELSE IF c < 160 THEN None
  ELSE IF IsZeroWidth(c) THEN Some(0)
  ELSE IF IsWide(c) \/ IsAmbiguous(c) THEN Some(2)
  ELSE Some(1)

\* AsciiControlCodeFormatter (crate::defaults::grapheme): the escape glyph of
\* an ascii control code, in caret notation: ^@ for U+0000, ^A for U+0001 ...
\* ^? for U+007F.  The glyph is a sequence of printed chars.
AsciiControlCodeFormatter(ac) ==
  << 94, IF ac = 127 THEN 63 ELSE ac + 64 >>

\* unicode::char_width(options, c) (crate::buf::unicode), which BufWindex
\* calls for each char: the width table of the width model, a total function.
unicode_char_width(opts, c) ==
  IF c = 9 THEN opts.tab_stop
  ELSE IF c \in {10, 13} THEN 0
  ELSE IF is_ascii_control(c) THEN Len(AsciiControlCodeFormatter(c))
  ELSE IF IsWide(c) THEN 2
  ELSE 1

----------------------------------------------------------------------------
(* BufWindex *)

\* BufWindex::new
BufWindex_new == [char2width |-> << >>, width2char |-> [w \in {} |-> 0]]

\* BTreeMap::insert
map_insert(m, key, val) ==
  [x \in (DOMAIN m) \cup {key} |-> IF x = key THEN val ELSE m[x]]

\* _internal_check (debug_assertions build): TRUE iff no assertion fails.
internal_check(self) ==
  /\ Len(self.char2width) >= Cardinality(DOMAIN self.width2char)
  /\ \A i \in 0..(Len(self.char2width) - 1) :
       LET w == self.char2width[i + 1] IN
       /\ (i > 0 => w >= self.char2width[i])
       /\ w \in DOMAIN self.width2char
       /\ i <= self.width2char[w]

\* need_build without the test that the char exists in the line.
need_build_any_char(self, line, char_idx) ==
  char_idx >= Len(self.char2width)

\* "If not cached ... if this char exists in the rope line, build the cache."
need_build(self, line, char_idx) ==
  /\ char_idx >= Len(self.char2width)
  /\ char_idx < Len(line)

\* start_idx_of restarting from the first char of the line.
start_idx_from_zero(self) == 0

\* let start_idx = self.char2width.len()
start_idx_of(self) == Len(self.char2width)

\* initial_prefix_width forgetting the cached prefix.
initial_prefix_width_zero(self, start_idx) == 0

\* let mut prefix_width = if start_idx == 0 { 0 } else { char2width[start_idx - 1] }
initial_prefix_width(self, start_idx) ==
  IF start_idx = 0 THEN 0 ELSE self.char2width[start_idx]

\* update_width2char never overwriting a recorded width.
update_width2char_keep_first(width2char, w, c) ==
  IF w \in DOMAIN width2char THEN width2char ELSE map_insert(width2char, w, c)

\* "Update `width2char`": c is the index of the char just pushed.
update_width2char(width2char, w, c) ==
  IF w \in DOMAIN width2char
    THEN IF width2char[w] < c THEN map_insert(width2char, w, c) ELSE width2char
    ELSE map_insert(width2char, w, c)

\* next_prefix_width assigning instead of adding.
next_prefix_width_assign(prefix_width, c_width) == c_width

\* prefix_width += unicode::char_width(options, c)
next_prefix_width(prefix_width, c_width) == prefix_width + c_width

\* pushed_char_idx off by one.
pushed_char_idx_len(char2width) == Len(char2width)

\* let c = self.char2width.len() - 1 (after the push)
pushed_char_idx(char2width) == Len(char2width) - 1

\* The loop `for _i in start_idx..=char_idx`, n iterations left; pos is the
\* position of the iterator rope_chars (= rope_line.chars().skip(start_idx)).
RECURSIVE build_loop(_, _, _, _, _, _)
build_loop(self, opts, line, prefix_width, pos, n) ==
  IF n <= 0 THEN [idx |-> self, panic |-> "none"]
  ELSE IF pos >= Len(line) THEN [idx |-> self, panic |-> "unwrap"]
  ELSE LET c == line[pos + 1]
           pw == next_prefix_width(prefix_width, unicode_char_width(opts, c))
           c2w == Append(self.char2width, pw)
           ci == pushed_char_idx(c2w)
       IN build_loop([char2width |-> c2w,
                      width2char |-> update_width2char(self.width2char, pw, ci)],
                     opts, line, pw, pos + 1, n - 1)

\* lookup answering with the last cached prefix width.
lookup_last_cached(self, char_idx) ==
  IF char_idx < Len(self.char2width)
    THEN Some(self.char2width[Len(self.char2width)])
    ELSE None

\* "Find width from the cache."
lookup(self, char_idx) ==
  IF char_idx < Len(self.char2width)
    THEN Some(self.char2width[char_idx + 1])
    ELSE None

\* BufWindex::width_until: the index after the call, the returned value, and
\* the panic raised, if any.
width_until(self, opts, line, char_idx) ==
  LET start_idx == start_idx_of(self)
      built == IF need_build(self, line, char_idx)
                 THEN build_loop(self, opts, line,
                                 initial_prefix_width(self, start_idx),
                                 start_idx, char_idx - start_idx + 1)
                 ELSE [idx |-> self, panic |-> "none"]
  IN IF built.panic # "none"
       THEN [idx |-> built.idx, ret |-> None, panic |-> built.panic]
     ELSE IF ~internal_check(built.idx)
       THEN [idx |-> built.idx, ret |-> None, panic |-> "internal_check"]
     ELSE [idx |-> built.idx, ret |-> lookup(built.idx, char_idx), panic |-> "none"]

\* between_result without the subtraction.
between_result_no_sub(idx, w_start, w_last) ==
  IF w_start # None /\ w_last # None
    THEN [idx |-> idx, ret |-> Some(w_last[1]), panic |-> "none"]
    ELSE [idx |-> idx, ret |-> None, panic |-> "none"]

\* match (w_start, w_last) { (Some(s), Some(l)) => { assert!(s <= l); Some(l - s) } _ => None }
between_result(idx, w_start, w_last) ==
  IF w_start # None /\ w_last # None
    THEN IF w_start[1] <= w_last[1]
           THEN [idx |-> idx, ret |-> Some(w_last[1] - w_start[1]), panic |-> "none"]
           ELSE [idx |-> idx, ret |-> None, panic |-> "assert_start_le_last"]
    ELSE [idx |-> idx, ret |-> None, panic |-> "none"]

\* BufWindex::width_between(c_start..=c_last)
width_between(self, opts, line, c_start, c_last) ==
  IF ~internal_check(self)
    THEN [idx |-> self, ret |-> None, panic |-> "internal_check"]
  ELSE LET r1 == width_until(self, opts, line, c_start) IN
    IF r1.panic # "none" THEN r1
    ELSE LET r2 == width_until(r1.idx, opts, line, c_last) IN
      IF r2.panic # "none" THEN r2
      ELSE between_result(r2.idx, r1.ret, r2.ret)

----------------------------------------------------------------------------
(* The width index as a state machine: a line, the options, and one or two *)
(* indexes of that line, each called in any order with any char indexes.   *)
(* An index is kept for one line (its text and options do not change while *)
(* the index lives); a panic ends the use of the index.                    *)

NoCall == [op |-> "new", a |-> 0, b |-> 0, ret |-> None, panic |-> "none"]
NoUnicodeCall == [op |-> "none", arg |-> << >>, ret |-> 0, symbol |-> << >>, panic |-> FALSE]

\* No Buffer has been constructed.
NoBuffers ==
  /\ VALUE = 1
  /\ new_id = [t \in {} |-> None]
  /\ buffers = << >>

NoViewportCall ==
  [op |-> "none", wrap |-> FALSE, line_break |-> FALSE, height |-> 0, width |-> 0,
   start_line |-> 0, start_bcolumn |-> 0, panic |-> "none",
   rectangle |-> [start_line |-> 0, end_line |-> 0], lines |-> << >>]

\* No thread uses the lock of a buffer.
NoLock ==
  /\ lock = [readers |-> {}, writer |-> {}]
  /\ thread = << >>
  /\ text = 0

NoIterator == [op |-> "none", order |-> "Ascent", queue |-> << >>, yielded |-> << >>, ended |-> FALSE]

\* No tree and no iterator.
NoTree ==
  /\ itree = [root |-> None, children |-> << >>]
  /\ iter = NoIterator

NoFrameValue ==
  [size |-> [width |-> 0, height |-> 0], cells |-> << >>, cursor |-> 0,
   dirty_cells |-> << >>, dirty_cursor |-> FALSE, panic |-> "none"]

\* No lock in use, no tree, no frame.
NoUi ==
  /\ NoLock
  /\ NoTree
  /\ frame = NoFrameValue

\* No viewport has been laid out.
NoViewport ==
  /\ buffer = None
  /\ vcall = NoViewportCall
  /\ NoUi

InitWindex(instances) ==
  /\ NoBuffers
  /\ NoViewport
  /\ rope_line \in SeqsUpTo(LineChars, MaxLineLen)
  /\ options \in [tab_stop : TabStops]
  /\ windex = [k \in instances |-> BufWindex_new]
  /\ last = [k \in instances |-> NoCall]
  /\ ucall = NoUnicodeCall

WidthUntil(k) ==
  /\ last[k].panic = "none"
  /\ \E char_idx \in 0..MaxLineLen :
       LET r == width_until(windex[k], options, rope_line, char_idx) IN
       /\ windex' = [windex EXCEPT ![k] = r.idx]
       /\ last' = [last EXCEPT ![k] = [op |-> "width_until", a |-> char_idx,
                                       b |-> char_idx, ret |-> r.ret, panic |-> r.panic]]
  /\ UNCHANGED <<rope_line, options, ucall, bufferIdVars, viewportVars, uiVars>>

WidthBetween(k) ==
  /\ last[k].panic = "none"
  /\ \E c_start \in 0..MaxLineLen, c_last \in 0..MaxLineLen :
       LET r == width_between(windex[k], options, rope_line, c_start, c_last) IN
       /\ windex' = [windex EXCEPT ![k] = r.idx]
       /\ last' = [last EXCEPT ![k] = [op |-> "width_between", a |-> c_start,
                                       b |-> c_last, ret |-> r.ret, panic |-> r.panic]]
  /\ UNCHANGED <<rope_line, options, ucall, bufferIdVars, viewportVars, uiVars>>

InitWindex1 == InitWindex({1})

WidthUntilAny == \E k \in DOMAIN windex : WidthUntil(k)

WidthBetweenAny == \E k \in DOMAIN windex : WidthBetween(k)

NextWindex ==
  \/ WidthUntilAny
  \/ WidthBetweenAny

\* One index, called with width_until and width_between.
SpecWindex == InitWindex1 /\ [][NextWindex]_vars

InitWindex2 == InitWindex({1, 2})

NextWindexPair == WidthUntilAny

\* Two indexes of the same line, each with its own sequence of width_until calls.
SpecWindexPair == InitWindex2 /\ [][NextWindexPair]_vars

----------------------------------------------------------------------------
(* Buffer: the unicode methods.  A result is [panic, ret, symbol]: ret is   *)
(* the display width, symbol the printed chars (a sequence).                *)

\* Buffer::tab_stop
tab_stop(opts) == opts.tab_stop

Ok(w, symbol) == [panic |-> FALSE, ret |-> w, symbol |-> symbol]
Panic == [panic |-> TRUE, ret |-> 0, symbol |-> << >>]

\* " ".repeat(n)
RECURSIVE repeat_space(_)
repeat_space(n) == IF n <= 0 THEN << >> ELSE << 32 >> \o repeat_space(n - 1)

\* Buffer::char_width
char_width(opts, c) ==
  IF is_ascii_control(c)
    THEN IF c = 9 THEN Ok(tab_stop(opts), << >>)
         ELSE IF c \in {10, 13} THEN Ok(0, << >>)
         ELSE Ok(Len(AsciiControlCodeFormatter(c)), << >>)
    ELSE IF width_cjk(c) = None
           THEN Panic
           ELSE Ok(width_cjk(c)[1], << >>)

\* Buffer::char_symbol
char_symbol(opts, c) ==
  LET width == char_width(opts, c) IN
  IF width.panic THEN Panic
  ELSE IF is_ascii_control(c)
    THEN IF c = 9 THEN Ok(width.ret, repeat_space(tab_stop(opts)))
         ELSE IF c \in {10, 13} THEN Ok(width.ret, << >>)
         ELSE Ok(width.ret, AsciiControlCodeFormatter(c))
    ELSE Ok(width.ret, << c >>)

\* Buffer::str_width: s.chars().map(|c| self.char_width(c)).sum()
RECURSIVE str_width(_, _)
str_width(opts, s) ==
  IF s = << >> THEN Ok(0, << >>)
  ELSE LET w == char_width(opts, Head(s)) IN
       IF w.panic THEN Panic
       ELSE LET rest == str_width(opts, Tail(s)) IN
            IF rest.panic THEN Panic ELSE Ok(w.ret + rest.ret, << >>)

\* Buffer::str_symbols: the fold over the char symbols, from the accumulator
\* acc = (init_symbol, init_width).
RECURSIVE str_symbols_fold(_, _, _)
str_symbols_fold(opts, s, acc) ==
  IF s = << >> THEN acc
  ELSE LET cs == char_symbol(opts, Head(s)) IN
       IF cs.panic THEN Panic
       ELSE str_symbols_fold(opts, Tail(s), Ok(acc.ret + cs.ret, acc.symbol \o cs.symbol))

str_symbols(opts, s) == str_symbols_fold(opts, s, Ok(0, << >>))

UnicodeCall(op, arg, r) ==
  [op |-> op, arg |-> arg, ret |-> r.ret, symbol |-> r.symbol, panic |-> r.panic]

InitUnicode ==
  /\ NoBuffers
  /\ NoViewport
  /\ rope_line = << >>
  /\ options \in [tab_stop : TabStops]
  /\ windex = [k \in {} |-> BufWindex_new]
  /\ last = [k \in {} |-> NoCall]
  /\ ucall = NoUnicodeCall

CharWidth ==
  /\ \E c \in UnicodeChars : ucall' = UnicodeCall("char_width", << c >>, char_width(options, c))
  /\ UNCHANGED <<rope_line, options, windex, last, bufferIdVars, viewportVars, uiVars>>

CharSymbol ==
  /\ \E c \in UnicodeChars : ucall' = UnicodeCall("char_symbol", << c >>, char_symbol(options, c))
  /\ UNCHANGED <<rope_line, options, windex, last, bufferIdVars, viewportVars, uiVars>>

StrWidth ==
  /\ \E s \in SeqsUpTo(UnicodeChars, MaxStrLen) :
       ucall' = UnicodeCall("str_width", s, str_width(options, s))
  /\ UNCHANGED <<rope_line, options, windex, last, bufferIdVars, viewportVars, uiVars>>

StrSymbols ==
  /\ \E s \in SeqsUpTo(UnicodeChars, MaxStrLen) :
       ucall' = UnicodeCall("str_symbols", s, str_symbols(options, s))
  /\ UNCHANGED <<rope_line, options, windex, last, bufferIdVars, viewportVars, uiVars>>

\* Buffer::set_tab_stop
SetTabStop ==
  /\ \E value \in TabStops : options' = [options EXCEPT !.tab_stop = value]
  /\ UNCHANGED <<rope_line, windex, last, ucall, bufferIdVars, viewportVars, uiVars>>

NextUnicode ==
  \/ CharWidth
  \/ CharSymbol
  \/ StrWidth
  \/ StrSymbols
  \/ SetTabStop

\* A buffer's unicode methods, called with any char and any short string.
SpecUnicode == InitUnicode /\ [][NextUnicode]_vars

----------------------------------------------------------------------------
(* Buffer ids: next_buffer_id and the Buffers constructed with its ids.    *)
(* Any thread may construct a Buffer; the id is taken from a static        *)
(* AtomicI32 with fetch_add, which is one atomic step and wraps around on  *)
(* overflow.  The counter keeps its width: VALUE ranges over I32Min..I32Max.*)

\* i32::MAX and i32::MIN, the range of the AtomicI32.
I32Max == 2147483647
I32Min == (-I32Max) - 1

\* The threads that construct Buffers.
Threads == {1, 2}

\* The most Buffers constructed and kept in one behaviour.
MaxBuffers == 3

\* The new value AtomicI32::fetch_add(1, _) stores: the addition wraps around.
fetch_add_1(v) == IF v = I32Max THEN I32Min ELSE v + 1

\* No BufWindex and no unicode call.
NoWindex ==
  /\ rope_line = << >>
  /\ windex = [k \in {} |-> BufWindex_new]
  /\ last = [k \in {} |-> NoCall]
  /\ ucall = NoUnicodeCall

InitBufferId ==
  /\ NoWindex
  /\ NoViewport
  /\ options \in [tab_stop : TabStops]
  /\ VALUE = 1
  /\ new_id = [t \in Threads |-> None]
  /\ buffers = << >>

\* Thread t evaluates next_buffer_id() for the Buffer it constructs.
next_buffer_id(t) ==
  /\ new_id[t] = None
  /\ Len(buffers) + Cardinality({u \in Threads : new_id[u] # None}) < MaxBuffers
  /\ new_id' = [new_id EXCEPT ![t] = Some(VALUE)]
  /\ VALUE' = fetch_add_1(VALUE)
  /\ UNCHANGED <<rope_line, options, windex, last, ucall, buffers, viewportVars, uiVars>>

\* Thread t finishes Buffer::_new / Buffer::_new_empty with the id it got.
Buffer_new(t) ==
  /\ new_id[t] # None
  /\ buffers' = Append(buffers, [id |-> new_id[t][1], options |-> options])
  /\ new_id' = [new_id EXCEPT ![t] = None]
  /\ UNCHANGED <<rope_line, options, windex, last, ucall, VALUE, viewportVars, uiVars>>

\* Buffer::set_tab_stop on the i-th Buffer.
Buffer_set_tab_stop(i) ==
  /\ \E value \in TabStops :
       buffers' = [buffers EXCEPT ![i].options.tab_stop = value]
  /\ UNCHANGED <<rope_line, options, windex, last, ucall, VALUE, new_id, viewportVars, uiVars>>

\* A run of calls of next_buffer_id whose Buffers were dropped again, long
\* enough to bring the counter to `target` without passing I32Max.
DroppedBuffers(target) ==
  /\ buffers # << >>
  /\ \A t \in Threads : new_id[t] = None
  /\ VALUE < target
  /\ VALUE' = target
  /\ UNCHANGED <<rope_line, options, windex, last, ucall, new_id, buffers, viewportVars, uiVars>>

NextBufferIdAny == \E t \in Threads : next_buffer_id(t)

BufferNewAny == \E t \in Threads : Buffer_new(t)

BufferSetTabStopAny == \E i \in 1..Len(buffers) : Buffer_set_tab_stop(i)

DroppedBuffersAny == \E target \in {1, I32Max} : DroppedBuffers(target)

NextBufferId ==
  \/ NextBufferIdAny
  \/ BufferNewAny
  \/ BufferSetTabStopAny
  \/ DroppedBuffersAny

\* Threads constructing Buffers, each with an id of next_buffer_id.
SpecBufferId == InitBufferId /\ [][NextBufferId]_vars

----------------------------------------------------------------------------
(* The viewport layout: ViewportEngine::collect_from_top_left.  A BTreeMap  *)
(* is a function from its keys; a result is [panic, rectangle, lines].      *)
(* Subtraction of usize values that goes below zero panics in a build with  *)
(* overflow checks ("debug") and wraps around in one without ("release").   *)

\* std::cmp::max
Max(x, y) == IF x >= y THEN x ELSE y

\* Longest buffer text a viewport is laid out on.
MaxTextLen == 4

\* Largest window height and width.
MaxHeight == 2
MaxWidth == 3

\* Largest start line and start column asked for.
MaxStartLine == 2
MaxStartColumn == 2

\* The chars of the buffer text: 'A', a CJK ideograph (2 cells), tab, line feed.
ViewChars == {65, 19968, 9, 10}

Builds == {"debug", "release"}

\* usize wraps around modulo 2^64; the integers of the model end below 2^31,
\* and the model wraps around modulo 2^30, far above every width and index in it.
UsizeModulus == 2^30

\* a - b on usize.
usize_sub(build, a, b) ==
  IF a >= b THEN [panic |-> "none", val |-> a - b]
  ELSE IF build = "debug" THEN [panic |-> "subtract_overflow", val |-> 0]
  ELSE [panic |-> "none", val |-> (a - b) + UsizeModulus]

\* Rope::lines: the text split after every line break; the last line has none
\* (and is empty when the text is empty or ends with a line break).
RECURSIVE rope_lines(_)
rope_lines(t) ==
  IF \A i \in 1..Len(t) : t[i] # 10 THEN << t >>
  ELSE LET k == CHOOSE i \in 1..Len(t) : t[i] = 10 /\ \A j \in 1..(i - 1) : t[j] # 10
       IN << SubSeq(t, 1, k) >> \o rope_lines(SubSeq(t, k + 1, Len(t)))

\* Rope::len_lines
len_lines(t) == Len(rope_lines(t))

\* Buffer::get_lines_at: None when line_idx > len_lines, else the lines from line_idx on.
get_lines_at(t, line_idx) ==
  IF line_idx > len_lines(t) THEN None
  ELSE Some(SubSeq(rope_lines(t), line_idx + 1, len_lines(t)))

\* ViewportRect::default()
ViewportRect_default == [start_line |-> 0, end_line |-> 0]

\* (ViewportRect::default(), BTreeMap::new())
DefaultLayout == [panic |-> "none", rectangle |-> ViewportRect_default, lines |-> << >>]

PanicLayout(name) == [panic |-> name, rectangle |-> ViewportRect_default, lines |-> << >>]

LineViewportRow(start_bcol, start_c_idx, end_bcol, end_c_idx) ==
  [start_bcolumn |-> start_bcol, start_char_idx |-> start_c_idx,
   end_bcolumn |-> end_bcol, end_char_idx |-> end_c_idx]

\* The locals of the loop over the chars of one line, as a line's iteration sets them.
LineLocals(wrow) ==
  [wrow |-> wrow, wcol |-> 0, bcol |-> 0, start_bcol |-> 0, end_bcol |-> 0,
   start_c_idx |-> 0, end_c_idx |-> 0, start_c_idx_init |-> FALSE,
   start_fills |-> 0, end_fills |-> 0, rows |-> << >>, panic |-> "none"]

\* Mode A, the loop over the chars of one line from char i on; the result is
\* the locals when the loop is left.
RECURSIVE nowrap_chars(_, _, _, _, _, _, _)
nowrap_chars(build, opts, line, i, v, width, start_bcolumn) ==
  IF i >= Len(line) THEN v
  ELSE
    LET w == char_width(opts, line[i + 1]) IN
    IF w.panic THEN [v EXCEPT !.panic = "unwrap"]
    ELSE
      LET c_width == w.ret IN
      IF v.bcol + c_width < start_bcolumn
        THEN nowrap_chars(build, opts, line, i + 1,
               [v EXCEPT !.bcol = v.bcol + c_width, !.end_bcol = v.bcol + c_width,
                         !.end_c_idx = i],
               width, start_bcolumn)
        ELSE
          LET fills == usize_sub(build, v.bcol, start_bcolumn)
              v1 == IF v.start_c_idx_init THEN v
                    ELSE [v EXCEPT !.start_c_idx_init = TRUE, !.start_bcol = v.bcol,
                                   !.start_c_idx = i, !.start_fills = fills.val,
                                   !.panic = fills.panic]
          IN
          IF v1.panic # "none" THEN v1
          ELSE IF v1.wcol + c_width > width
            THEN [v1 EXCEPT !.end_fills = (v1.wcol + c_width) - width]
            ELSE
              LET v2 == [v1 EXCEPT !.bcol = v1.bcol + c_width,
                                   !.end_bcol = v1.bcol + c_width,
                                   !.end_c_idx = i, !.wcol = v1.wcol + c_width]
              IN IF v2.wcol >= width THEN v2
                 ELSE nowrap_chars(build, opts, line, i + 1, v2, width, start_bcolumn)

\* Mode A, one iteration of the loop over the lines: the LineViewport of `line`.
nowrap_line(build, opts, line, wrow, width, start_bcolumn) ==
  LET v == nowrap_chars(build, opts, line, 0, LineLocals(wrow), width, start_bcolumn) IN
  [panic |-> v.panic,
   wrow |-> wrow + 1,
   viewport |->
     [rows |-> map_insert(<< >>, wrow,
                 LineViewportRow(v.start_bcol, v.start_c_idx, v.end_bcol, v.end_c_idx + 1)),
      start_filled_columns |-> v.start_fills,
      end_filled_columns |-> v.end_fills]]

\* Mode A, the loop over the lines `buflines` (the first is line current_line).
RECURSIVE nowrap_lines(_, _, _, _, _, _, _, _, _, _)
nowrap_lines(build, opts, buflines, height, width, start_line, start_bcolumn, wrow, current_line, line_viewports) ==
  IF buflines = << >> \/ wrow >= height
    THEN [panic |-> "none",
          rectangle |-> [start_line |-> start_line, end_line |-> current_line],
          lines |-> line_viewports]
    ELSE
      LET r == nowrap_line(build, opts, Head(buflines), wrow, width, start_bcolumn) IN
      IF r.panic # "none" THEN PanicLayout(r.panic)
      ELSE nowrap_lines(build, opts, Tail(buflines), height, width, start_line,
                        start_bcolumn, r.wrow, current_line + 1,
                        map_insert(line_viewports, current_line, r.viewport))

\* Mode A with the lines keyed from the line after the start line.
collect_from_top_left_with_nowrap_keyed_from_next(build, opts, buf, height, width, start_line, start_bcolumn) ==
  IF buf = None THEN PanicLayout("unwrap")
  ELSE
    LET buflines == get_lines_at(buf[1], start_line) IN
    IF buflines = None THEN DefaultLayout
    ELSE nowrap_lines(build, opts, buflines[1], height, width, start_line,
                      start_bcolumn, 0, start_line + 1, << >>)

\* ViewportEngine::_collect_from_top_left_with_nowrap
collect_from_top_left_with_nowrap(build, opts, buf, height, width, start_line, start_bcolumn) ==
  IF buf = None THEN PanicLayout("unwrap")
  ELSE
    LET buflines == get_lines_at(buf[1], start_line) IN
    IF buflines = None THEN DefaultLayout
    ELSE nowrap_lines(build, opts, buflines[1], height, width, start_line,
                      start_bcolumn, 0, start_line, << >>)

\* Mode B, what both the overflow branch and the exact-fill branch do: close
\* the row, open the next one at char i and, when the window has no row left,
\* set end_fills and leave the loop (done).
wrap_next_row(build, v, i, c_width, height, width) ==
  LET v1 == [v EXCEPT !.rows = map_insert(v.rows, v.wrow,
                         LineViewportRow(v.start_bcol, v.start_c_idx, v.end_bcol,
                                         v.end_c_idx + 1)),
                      !.wrow = v.wrow + 1, !.wcol = 0,
                      !.start_bcol = v.end_bcol + 1, !.start_c_idx = i]
      fills == usize_sub(build, 0 + c_width, width)
  IN IF v1.wrow >= height
       THEN [done |-> TRUE, v |-> [v1 EXCEPT !.end_fills = fills.val, !.panic = fills.panic]]
       ELSE [done |-> FALSE, v |-> v1]

\* Mode B, the loop over the chars of one line from char i on.
RECURSIVE wrap_nolinebreak_chars(_, _, _, _, _, _, _, _)
wrap_nolinebreak_chars(build, opts, line, i, v, height, width, start_bcolumn) ==
  IF i >= Len(line) THEN v
  ELSE
    LET w == char_width(opts, line[i + 1]) IN
    IF w.panic THEN [v EXCEPT !.panic = "unwrap"]
    ELSE
      LET c_width == w.ret IN
      IF v.bcol < start_bcolumn
        THEN wrap_nolinebreak_chars(build, opts, line, i + 1,
               [v EXCEPT !.bcol = v.bcol + c_width, !.end_bcol = v.bcol + c_width,
                         !.end_c_idx = i],
               height, width, start_bcolumn)
        ELSE
          LET fills == usize_sub(build, v.bcol, start_bcolumn)
              v1 == IF v.start_c_idx_init THEN v
                    ELSE [v EXCEPT !.start_c_idx_init = TRUE, !.start_bcol = v.bcol,
                                   !.start_c_idx = i, !.start_fills = fills.val,
                                   !.panic = fills.panic]
              over == IF v1.wcol + c_width > width
                        THEN wrap_next_row(build, v1, i, c_width, height, width)
                        ELSE [done |-> FALSE, v |-> v1]
          IN
          IF v1.panic # "none" THEN v1
          ELSE IF over.done THEN over.v
          ELSE
            LET v2 == [over.v EXCEPT !.bcol = over.v.bcol + c_width,
                                     !.end_bcol = over.v.bcol + c_width,
                                     !.end_c_idx = i, !.wcol = over.v.wcol + c_width]
            IN
            IF i + 1 = Len(line)
              THEN [v2 EXCEPT !.rows = map_insert(v2.rows, v2.wrow,
                                 LineViewportRow(v2.start_bcol, v2.start_c_idx,
                                                 v2.end_bcol + 1, v2.end_c_idx + 1))]
              ELSE
                LET full == IF v2.wcol >= width
                              THEN wrap_next_row(build, v2, i, c_width, height, width)
                              ELSE [done |-> FALSE, v |-> v2]
                IN IF full.done THEN full.v
                   ELSE wrap_nolinebreak_chars(build, opts, line, i + 1, full.v,
                                               height, width, start_bcolumn)

\* Mode B, one iteration of the loop over the lines.
wrap_nolinebreak_line(build, opts, line, wrow, height, width, start_bcolumn) ==
  LET v == wrap_nolinebreak_chars(build, opts, line, 0, LineLocals(wrow), height, width,
                                  start_bcolumn)
  IN [panic |-> v.panic,
      wrow |-> v.wrow + 1,
      viewport |-> [rows |-> v.rows,
                    start_filled_columns |-> v.start_fills,
                    end_filled_columns |-> v.end_fills]]

\* Mode B, the loop over the lines `buflines` (the first is line current_line).
RECURSIVE wrap_nolinebreak_lines(_, _, _, _, _, _, _, _, _, _)
wrap_nolinebreak_lines(build, opts, buflines, height, width, start_line, start_bcolumn, wrow, current_line, line_viewports) ==
  IF buflines = << >> \/ wrow >= height
    THEN [panic |-> "none",
          rectangle |-> [start_line |-> start_line, end_line |-> current_line],
          lines |-> line_viewports]
    ELSE
      LET r == wrap_nolinebreak_line(build, opts, Head(buflines), wrow, height, width,
                                     start_bcolumn)
      IN
      IF r.panic # "none" THEN PanicLayout(r.panic)
      ELSE wrap_nolinebreak_lines(build, opts, Tail(buflines), height, width, start_line,
                                  start_bcolumn, r.wrow, current_line + 1,
                                  map_insert(line_viewports, current_line, r.viewport))

\* ViewportEngine::_collect_from_top_left_with_wrap_nolinebreak
collect_from_top_left_with_wrap_nolinebreak(build, opts, buf, height, width, start_line, start_bcolumn) ==
  IF buf = None THEN PanicLayout("unwrap")
  ELSE
    LET buflines == get_lines_at(buf[1], start_line) IN
    IF buflines = None THEN DefaultLayout
    ELSE wrap_nolinebreak_lines(build, opts, buflines[1], height, width, start_line,
                                start_bcolumn, 0, start_line, << >>)

\* char::len_utf8
len_utf8(c) == IF c < 128 THEN 1 ELSE IF c < 2048 THEN 2 ELSE IF c < 65536 THEN 3 ELSE 4

RECURSIVE str_len(_)
\* String::len: the length in bytes.
str_len(s) == IF s = << >> THEN 0 ELSE len_utf8(Head(s)) + str_len(Tail(s))

\* truncate_line, from char i of the line on, with the String built so far.
RECURSIVE truncate_line_from(_, _, _, _, _)
truncate_line_from(line, i, builder, start_column, max_bytes) ==
  IF i >= Len(line) THEN builder
  ELSE IF i < start_column
    THEN truncate_line_from(line, i + 1, builder, start_column, max_bytes)
  ELSE IF str_len(builder) > max_bytes THEN builder
  ELSE truncate_line_from(line, i + 1, Append(builder, line[i + 1]), start_column, max_bytes)

truncate_line(line, start_column, max_bytes) ==
  truncate_line_from(line, 0, << >>, start_column, max_bytes)

\* The word-break classes (UAX #29) of the chars of the model: letters join
\* with letters and spaces with spaces; any other char is a segment of its own.
WordBreakClass(c) ==
  IF c \in (65..90) \cup (97..122) THEN "ALetter"
  ELSE IF c = 32 THEN "WSegSpace"
  ELSE "Other"

\* The length of the first segment of the non-empty string s.
RECURSIVE first_word_len(_, _)
first_word_len(s, n) ==
  IF n < Len(s) /\ WordBreakClass(s[1]) # "Other"
     /\ WordBreakClass(s[n + 1]) = WordBreakClass(s[1])
    THEN first_word_len(s, n + 1)
    ELSE n

\* UnicodeSegmentation::split_word_bounds
RECURSIVE split_word_bounds(_)
split_word_bounds(s) ==
  IF s = << >> THEN << >>
  ELSE LET n == first_word_len(s, 1) IN
       << SubSeq(s, 1, n) >> \o split_word_bounds(SubSeq(s, n + 1, Len(s)))

\* strings::char_width(c, &buffer) (crate::ui::util::strings): the width table.
strings_char_width(opts, c) == unicode_char_width(opts, c)

\* The fold of mode C over the chars of a word: (wd_chars, wd_width).
RECURSIVE wd_fold(_, _)
wd_fold(opts, wd) ==
  IF wd = << >> THEN [wd_chars |-> 0, wd_width |-> 0]
  ELSE LET rest == wd_fold(opts, Tail(wd)) IN
       [wd_chars |-> 1 + rest.wd_chars,
        wd_width |-> strings_char_width(opts, Head(wd)) + rest.wd_width]

\* Mode C's row section (the LineViewportRow this function builds).
Section(row, chars_length, chars_width) ==
  [row_idx |-> row, chars_length |-> chars_length, chars_width |-> chars_width]

\* Mode C: push the section of the current row and start the next row.
linebreak_next_row(v) ==
  [v EXCEPT !.sections = Append(v.sections, Section(v.row, v.chars_length, v.chars_width)),
            !.row = v.row + 1, !.col = 0, !.chars_length = 0, !.chars_width = 0]

\* Mode C, the loop over the chars of a word that did not fit, from char k on.
RECURSIVE linebreak_word_chars(_, _, _, _, _, _)
linebreak_word_chars(opts, wd, k, v, height, width) ==
  IF k >= Len(wd) THEN v
  ELSE
    LET v1 == IF v.col >= width THEN linebreak_next_row(v) ELSE v
        cw == strings_char_width(opts, wd[k + 1])
    IN
    IF v.col >= width /\ v1.row >= height THEN v1
    ELSE IF v1.col + cw > width THEN v1
    ELSE linebreak_word_chars(opts, wd, k + 1,
           [v1 EXCEPT !.chars_width = v1.chars_width + cw,
                      !.chars_length = v1.chars_length + 1,
                      !.col = v1.col + cw, !.wd_length = v1.wd_length + cw],
           height, width)

\* Mode C, the loop over the words of one line from word i on.
RECURSIVE linebreak_words(_, _, _, _, _, _)
linebreak_words(opts, words, i, v, height, width) ==
  IF i >= Len(words) \/ v.row >= height THEN v
  ELSE
    LET wd == words[i + 1]
        f == wd_fold(opts, wd)
    IN
    IF f.wd_width = 0 /\ i + 1 = Len(words) THEN v
    ELSE IF f.wd_width + v.col <= width
      THEN linebreak_words(opts, words, i + 1,
             [v EXCEPT !.chars_length = v.chars_length + f.wd_chars,
                       !.chars_width = v.chars_width + f.wd_width,
                       !.col = v.col + f.wd_width,
                       !.wd_length = v.wd_length + f.wd_width],
             height, width)
      ELSE
        LET v1 == linebreak_next_row(v) IN
        IF v1.row >= height THEN v1
        ELSE linebreak_words(opts, words, i + 1,
               linebreak_word_chars(opts, wd, 0, v1, height, width), height, width)

\* Mode C, one iteration of the loop over the lines.
linebreak_line(opts, line, row, height, width, start_dcolumn_idx) ==
  LET truncated_line == truncate_line(line, start_dcolumn_idx, height * width * 4)
      word_boundaries == split_word_bounds(truncated_line)
      v == linebreak_words(opts, word_boundaries, 0,
             [row |-> row, col |-> 0, chars_length |-> 0, chars_width |-> 0,
              wd_length |-> 0, sections |-> << >>],
             height, width)
  IN [row |-> v.row + 1,
      wd_length |-> v.wd_length,
      viewport |-> [rows |-> Append(v.sections,
                                    Section(v.row, v.chars_length, v.chars_width))]]

\* Mode C, the loop over the lines `buflines` (the first is line current_line).
RECURSIVE linebreak_lines(_, _, _, _, _, _, _, _, _, _)
linebreak_lines(opts, buflines, height, width, start_line_idx, start_dcolumn_idx, row, current_line, max_column, line_viewports) ==
  IF buflines = << >> \/ row >= height
    THEN [panic |-> "none",
          rectangle |-> [start_line |-> start_line_idx, end_line |-> current_line,
                         start_bcolumn |-> start_dcolumn_idx, end_bcolumn |-> max_column],
          lines |-> line_viewports]
    ELSE
      LET r == linebreak_line(opts, Head(buflines), row, height, width, start_dcolumn_idx)
      IN linebreak_lines(opts, Tail(buflines), height, width, start_line_idx,
                         start_dcolumn_idx, r.row, current_line + 1,
                         Max(max_column, start_dcolumn_idx + r.wd_length),
                         map_insert(line_viewports, current_line, r.viewport))

\* ViewportEngine::_collect_from_top_left_with_wrap_linebreak
collect_from_top_left_with_wrap_linebreak(opts, buf, height, width, start_line_idx, start_dcolumn_idx) ==
  IF buf = None THEN PanicLayout("unwrap")
  ELSE
    LET buflines == get_lines_at(buf[1], start_line_idx) IN
    IF buflines = None THEN DefaultLayout
    ELSE linebreak_lines(opts, buflines[1], height, width, start_line_idx,
                         start_dcolumn_idx, 0, start_line_idx, start_dcolumn_idx, << >>)

\* collect_from_top_left without its check of the window size.
collect_from_top_left_any_size(build, opts, wrap, line_break, buf, height, width, start_line, start_bcolumn) ==
  IF ~wrap
    THEN collect_from_top_left_with_nowrap(build, opts, buf, height, width, start_line,
                                           start_bcolumn)
  ELSE IF ~line_break
    THEN collect_from_top_left_with_wrap_nolinebreak(build, opts, buf, height, width,
                                                     start_line, start_bcolumn)
  ELSE collect_from_top_left_with_wrap_linebreak(opts, buf, height, width, start_line,
                                                 start_bcolumn)

\* ViewportEngine::collect_from_top_left
collect_from_top_left(build, opts, wrap, line_break, buf, height, width, start_line, start_bcolumn) ==
  IF height = 0 \/ width = 0 THEN DefaultLayout
  ELSE IF ~wrap
    THEN collect_from_top_left_with_nowrap(build, opts, buf, height, width, start_line,
                                           start_bcolumn)
  ELSE IF ~line_break
    THEN collect_from_top_left_with_wrap_nolinebreak(build, opts, buf, height, width,
                                                     start_line, start_bcolumn)
  ELSE collect_from_top_left_with_wrap_linebreak(opts, buf, height, width, start_line,
                                                 start_bcolumn)

ViewportCall(wrap, line_break, height, width, start_line, start_bcolumn, r) ==
  [op |-> "collect_from_top_left", wrap |-> wrap, line_break |-> line_break,
   height |-> height, width |-> width, start_line |-> start_line,
   start_bcolumn |-> start_bcolumn, panic |-> r.panic, rectangle |-> r.rectangle,
   lines |-> r.lines]

\* The buffers a viewport is laid out on: any short text, or a dropped Buffer.
InitViewport ==
  /\ NoWindex
  /\ NoBuffers
  /\ NoUi
  /\ options \in [tab_stop : TabStops]
  /\ buffer \in {Some(t) : t \in SeqsUpTo(ViewChars, MaxTextLen)} \cup {None}
  /\ vcall = NoViewportCall

\* One call of collect_from_top_left on the buffer, in either build.
CollectFromTopLeft ==
  /\ vcall.op = "none"
  /\ \E build \in Builds, wrap \in BOOLEAN, line_break \in BOOLEAN,
        height \in 0..MaxHeight, width \in 0..MaxWidth,
        start_line \in 0..MaxStartLine, start_bcolumn \in 0..MaxStartColumn :
       vcall' = ViewportCall(wrap, line_break, height, width, start_line, start_bcolumn,
                  collect_from_top_left(build, options, wrap, line_break, buffer,
                                        height, width, start_line, start_bcolumn))
  /\ UNCHANGED <<rope_line, options, windex, last, ucall, bufferIdVars, buffer, uiVars>>

\* Viewport::new: the layout from line 0 and column 0, kept as the viewport.
Viewport_new ==
  /\ vcall.op = "none"
  /\ \E build \in Builds, wrap \in BOOLEAN, line_break \in BOOLEAN,
        height \in 0..MaxHeight, width \in 0..MaxWidth :
       vcall' = [ViewportCall(wrap, line_break, height, width, 0, 0,
                   collect_from_top_left(build, options, wrap, line_break, buffer,
                                         height, width, 0, 0))
                 EXCEPT !.op = "new"]
  /\ UNCHANGED <<rope_line, options, windex, last, ucall, bufferIdVars, buffer, uiVars>>

NextViewport == CollectFromTopLeft

\* A viewport laid out once on a buffer, for any window size, options and anchors.
SpecViewport == InitViewport /\ [][NextViewport]_vars

NextViewportNew == Viewport_new

\* A Viewport built once by Viewport::new on a buffer, for any window size and options.
SpecViewportNew == InitViewport /\ [][NextViewportNew]_vars

----------------------------------------------------------------------------
(* The lock of a BufferArc = Arc<RwLock<Buffer>> around layout calls *)

LayoutThreads == {1, 2}
WriterThread == 3
MaxReads == 2
MaxWrites == 2

IdleThread == [pc |-> "idle", seen |-> None, reads |-> 0, torn |-> FALSE, exit |-> "none"]

\* parking_lot::RwLock: a reader gets the lock when no writer holds it and
\* none waits for it; a writer gets it when nobody holds it.
WriterWaits == thread[WriterThread].pc = "wlock"
RwLock_can_read == lock.writer = {} /\ ~WriterWaits
RwLock_can_write == lock.writer = {} /\ lock.readers = {}

InitLock ==
  /\ NoWindex
  /\ NoBuffers
  /\ buffer = None
  /\ vcall = NoViewportCall
  /\ NoTree
  /\ frame = NoFrameValue
  /\ options \in [tab_stop : TabStops]
  /\ lock = [readers |-> {}, writer |-> {}]
  /\ thread = [t \in LayoutThreads \cup {WriterThread} |-> IdleThread]
  /\ text = 0

LockUnchanged ==
  UNCHANGED <<rope_line, options, windex, last, ucall, bufferIdVars, viewportVars,
              treeVars, frame>>

\* collect_from_top_left up to the lock: with a window of no height or width
\* it returns at once; the mode functions upgrade the BufferWk (a panic when
\* the Buffer was dropped) and then ask for the read lock.
Layout_call(t, path) ==
  /\ thread[t].pc = "idle"
  /\ thread' = [thread EXCEPT ![t] =
       IF path = "zero_size" THEN [IdleThread EXCEPT !.exit = "default", !.torn = thread[t].torn]
       ELSE IF path = "dropped" THEN [IdleThread EXCEPT !.exit = "panic", !.torn = thread[t].torn]
       ELSE [IdleThread EXCEPT !.pc = "rlock", !.torn = thread[t].torn]]
  /\ UNCHANGED <<lock, text>>
  /\ LockUnchanged

\* The scan begun without the read lock.
Layout_rlock_skipped(t) ==
  /\ thread[t].pc = "rlock"
  /\ thread' = [thread EXCEPT ![t].pc = "scan"]
  /\ UNCHANGED <<lock, text>>
  /\ LockUnchanged

\* rlock!(buffer)
Layout_rlock(t) ==
  /\ thread[t].pc = "rlock"
  /\ RwLock_can_read
  /\ lock' = [lock EXCEPT !.readers = lock.readers \cup {t}]
  /\ thread' = [thread EXCEPT ![t].pc = "scan"]
  /\ UNCHANGED text
  /\ LockUnchanged

\* One read of a line of the rope during the scan (get_lines_at, then the
\* loop over the lines).
Layout_read_line(t) ==
  /\ thread[t].pc = "scan"
  /\ thread[t].reads < MaxReads
  /\ thread' = [thread EXCEPT
       ![t].reads = thread[t].reads + 1,
       ![t].seen = IF thread[t].seen = None THEN Some(text) ELSE thread[t].seen,
       ![t].torn = thread[t].torn \/ (thread[t].seen # None /\ thread[t].seen # Some(text))]
  /\ UNCHANGED <<lock, text>>
  /\ LockUnchanged

\* The end of a mode function: the result is returned, or the start line is
\* outside the buffer (before any line is read), or the scan panics; the
\* guard is dropped in each.
Layout_return(t, exit) ==
  /\ thread[t].pc = "scan"
  /\ exit = "default" => thread[t].reads = 0
  /\ exit = "return" => thread[t].reads > 0
  /\ lock' = [lock EXCEPT !.readers = lock.readers \ {t}]
  /\ thread' = [thread EXCEPT ![t].pc = "idle", ![t].exit = exit]
  /\ UNCHANGED text
  /\ LockUnchanged

\* A writer asks for the write lock.
Writer_wlock ==
  /\ thread[WriterThread].pc = "idle"
  /\ text < MaxWrites
  /\ thread' = [thread EXCEPT ![WriterThread].pc = "wlock"]
  /\ UNCHANGED <<lock, text>>
  /\ LockUnchanged

\* The writer gets the write lock.
Writer_locked ==
  /\ WriterWaits
  /\ RwLock_can_write
  /\ lock' = [lock EXCEPT !.writer = {WriterThread}]
  /\ thread' = [thread EXCEPT ![WriterThread].pc = "writing"]
  /\ UNCHANGED text
  /\ LockUnchanged

\* The writer edits the buffer and drops its guard.
Writer_write ==
  /\ thread[WriterThread].pc = "writing"
  /\ text' = text + 1
  /\ lock' = [lock EXCEPT !.writer = {}]
  /\ thread' = [thread EXCEPT ![WriterThread].pc = "idle"]
  /\ LockUnchanged

LayoutCallAny ==
  \E t \in LayoutThreads, path \in {"zero_size", "dropped", "locked"} : Layout_call(t, path)

LayoutRlockAny == \E t \in LayoutThreads : Layout_rlock(t)

LayoutReadLineAny == \E t \in LayoutThreads : Layout_read_line(t)

LayoutReturnAny ==
  \E t \in LayoutThreads, exit \in {"default", "return", "panic"} : Layout_return(t, exit)

\* What a layout call does once it has been made, up to its return.
LayoutRun(t) ==
  \/ Layout_rlock(t)
  \/ Layout_read_line(t)
  \/ \E exit \in {"default", "return", "panic"} : Layout_return(t, exit)

NextLock ==
  \/ LayoutCallAny
  \/ LayoutRlockAny
  \/ LayoutReadLineAny
  \/ LayoutReturnAny
  \/ Writer_wlock
  \/ Writer_locked
  \/ Writer_write

\* Two threads laying out viewports of one buffer and one thread editing it.
\* A layout call runs to its return without suspension, and a thread that can
\* take the lock takes it.
SpecLock ==
  /\ InitLock
  /\ [][NextLock]_vars
  /\ \A t \in LayoutThreads : WF_vars(LayoutRun(t))
  /\ WF_vars(Writer_locked)
  /\ WF_vars(Writer_write)

----------------------------------------------------------------------------
(* Itree and ItreeIterator (ui/tree/internal/itree.rs) *)

MaxNodes == 5

Orders == {"Ascent", "Descent"}

\* The elements of a set of numbers as a sequence, lowest first.
RECURSIVE Ascending(_)
Ascending(S) ==
  IF S = {} THEN << >>
  ELSE LET m == CHOOSE x \in S : \A y \in S : x <= y
       IN << m >> \o Ascending(S \ {m})

RECURSIVE Reverse(_)
Reverse(q) == IF q = << >> THEN << >> ELSE Reverse(Tail(q)) \o << Head(q) >>

\* The trees of n nodes 1..n with root 1: every other node has its parent
\* among the nodes before it, and the children of a node are in the order of
\* their numbers.
TreesOf(n) ==
  {[root |-> Some(1),
    children |-> [k \in 1..n |-> Ascending({c \in 2..n : parent[c] = k})]] :
      parent \in {f \in [2..n -> 1..n] : \A c \in 2..n : f[c] < c}}

\* Itree::new
Itree_new == [root |-> None, children |-> << >>]

\* ItreeIterator::new
ItreeIterator_new(start, order) ==
  [op |-> "iter", order |-> order,
   queue |-> IF start = None THEN << >> ELSE << start[1] >>,
   yielded |-> << >>, ended |-> FALSE]

InitItree ==
  /\ NoWindex
  /\ NoBuffers
  /\ buffer = None
  /\ vcall = NoViewportCall
  /\ NoLock
  /\ frame = NoFrameValue
  /\ options \in [tab_stop : TabStops]
  /\ itree \in {Itree_new} \cup UNION {TreesOf(n) : n \in 1..MaxNodes}
  /\ iter = NoIterator

\* Itree::iter
Itree_iter ==
  /\ iter.op = "none"
  /\ iter' = ItreeIterator_new(itree.root, "Ascent")
  /\ UNCHANGED <<rope_line, options, windex, last, ucall, bufferIdVars, viewportVars,
                 lockVars, itree, frame>>

\* Itree::ordered_iter
Itree_ordered_iter(order) ==
  /\ iter.op = "none"
  /\ iter' = ItreeIterator_new(itree.root, order)
  /\ UNCHANGED <<rope_line, options, windex, last, ucall, bufferIdVars, viewportVars,
                 lockVars, itree, frame>>

\* ItreeIterator::next: the node at the front of the queue is yielded and its
\* children are pushed at the back; None once the queue is empty.
ItreeIterator_next ==
  /\ iter.op # "none"
  /\ ~iter.ended
  /\ IF iter.queue # << >>
       THEN LET node == Head(iter.queue)
                children == itree.children[node]
            IN iter' = [iter EXCEPT
                 !.queue = Tail(iter.queue) \o
                             (IF iter.order = "Ascent" THEN children ELSE Reverse(children)),
                 !.yielded = Append(iter.yielded, node)]
       ELSE iter' = [iter EXCEPT !.ended = TRUE]
  /\ UNCHANGED <<rope_line, options, windex, last, ucall, bufferIdVars, viewportVars,
                 lockVars, itree, frame>>

ItreeOrderedIterAny == \E order \in Orders : Itree_ordered_iter(order)

NextItree ==
  \/ Itree_iter
  \/ ItreeOrderedIterAny
  \/ ItreeIterator_next

\* One iterator over a tree, called until it returns None.
SpecItree == InitItree /\ [][NextItree]_vars

----------------------------------------------------------------------------
(* Frame (ui/canvas/frame.rs) *)

MaxFrameWidth == 2
MaxFrameHeight == 2
MaxCells == 2
MaxDirty == 2

\* Cells: Cell::default() and one other cell.  Cursors: Cursor::default() and one other.
Cell_default == 0
Cells == {Cell_default, 1}
Cursor_default == 0
Cursors == {Cursor_default, 1}

Sizes == [width : 0..MaxFrameWidth, height : 0..MaxFrameHeight]
Positions == [x : 0..MaxFrameWidth, y : 0..MaxFrameHeight]

\* Frame::new
Frame_new(size, cursor) ==
  [size |-> size, cells |-> [i \in 1..(size.height * size.width) |-> Cell_default],
   cursor |-> cursor, dirty_cells |-> << >>, dirty_cursor |-> FALSE, panic |-> "none"]

\* The index Frame computes for a position.
cell_index(pos) == pos.x * pos.y

\* Frame::cell, for an index inside the Vec
cell(f, pos) == f.cells[cell_index(pos) + 1]

\* A range start..end, as pushed to dirty_cells.
Range(start, end) == [start |-> start, end |-> end]

InitFrame ==
  /\ NoWindex
  /\ NoBuffers
  /\ buffer = None
  /\ vcall = NoViewportCall
  /\ NoLock
  /\ NoTree
  /\ options \in [tab_stop : TabStops]
  /\ frame \in {Frame_new(size, Cursor_default) : size \in Sizes}

FrameUnchanged ==
  UNCHANGED <<rope_line, options, windex, last, ucall, bufferIdVars, viewportVars,
              lockVars, treeVars>>

\* Frame::set_size
Frame_set_size(size) ==
  /\ frame.panic = "none"
  /\ frame' = [frame EXCEPT !.size = size]
  /\ FrameUnchanged

\* Frame::set_cell
Frame_set_cell(pos, c) ==
  /\ frame.panic = "none"
  /\ Len(frame.dirty_cells) < MaxDirty
  /\ LET index == cell_index(pos) IN
     IF index >= Len(frame.cells)
       THEN frame' = [frame EXCEPT !.panic = "index_out_of_bounds"]
       ELSE frame' = [frame EXCEPT
              !.cells[index + 1] = c,
              !.dirty_cells = Append(frame.dirty_cells, Range(index, index + 1))]
  /\ FrameUnchanged

\* Frame::set_cells: the range is pushed to dirty_cells, then spliced.
Frame_set_cells(pos, cells) ==
  /\ frame.panic = "none"
  /\ Len(frame.dirty_cells) < MaxDirty
  /\ LET start_at == cell_index(pos)
         end_at == start_at + Len(cells)
         dirty == Append(frame.dirty_cells, Range(start_at, end_at))
     IN IF end_at > Len(frame.cells)
          THEN frame' = [frame EXCEPT !.dirty_cells = dirty, !.panic = "range_out_of_bounds"]
          ELSE frame' = [frame EXCEPT
                 !.dirty_cells = dirty,
                 !.cells = SubSeq(frame.cells, 1, start_at) \o cells \o
                           SubSeq(frame.cells, end_at + 1, Len(frame.cells))]
  /\ FrameUnchanged

\* Frame::set_cursor
Frame_set_cursor(cursor) ==
  /\ frame.panic = "none"
  /\ IF frame.cursor # cursor
       THEN frame' = [frame EXCEPT !.cursor = cursor, !.dirty_cursor = TRUE]
       ELSE frame' = frame
  /\ FrameUnchanged

\* Frame::reset_dirty
Frame_reset_dirty ==
  /\ frame.panic = "none"
  /\ frame' = [frame EXCEPT !.dirty_cells = << >>, !.dirty_cursor = FALSE]
  /\ FrameUnchanged

FrameSetSizeAny == \E size \in Sizes : Frame_set_size(size)

FrameSetCellAny == \E pos \in Positions, c \in Cells : Frame_set_cell(pos, c)

FrameSetCellsAny ==
  \E pos \in Positions, cells \in SeqsUpTo(Cells, MaxCells) : Frame_set_cells(pos, cells)

FrameSetCursorAny == \E cursor \in Cursors : Frame_set_cursor(cursor)

NextFrame ==
  \/ FrameSetSizeAny
  \/ FrameSetCellAny
  \/ FrameSetCellsAny
  \/ FrameSetCursorAny
  \/ Frame_reset_dirty

\* A new frame of any size, drawn on, resized and cleaned in any order.
SpecFrame == InitFrame /\ [][NextFrame]_vars

----------------------------------------------------------------------------
(* Properties of the width index *)

\* The display width of the chars from..to (char indexes, both inclusive).
RECURSIVE SumCharWidth(_, _, _, _)
SumCharWidth(opts, line, from, to) ==
  IF from > to THEN 0
  ELSE unicode_char_width(opts, line[from + 1]) + SumCharWidth(opts, line, from + 1, to)

IsPrefixOf(s, t) ==
  /\ Len(s) <= Len(t)
  /\ \A i \in 1..Len(s) : s[i] = t[i]

InRange(i) == i < Len(rope_line)

\* What width_until answers for char_idx on index k as it is now.
AnswerNow(k, char_idx) == width_until(windex[k], options, rope_line, char_idx)

C2_Monotonic ==
  \A k \in DOMAIN windex :
    \A i \in 0..(Len(rope_line) - 1), j \in 0..(Len(rope_line) - 1) :
      i <= j =>
        LET ri == AnswerNow(k, i)
            rj == width_until(ri.idx, options, rope_line, j)
            qj == AnswerNow(k, j)
            qi == width_until(qj.idx, options, rope_line, i)
        IN /\ ri.panic = "none" /\ rj.panic = "none"
           /\ qi.panic = "none" /\ qj.panic = "none"
           /\ ri.ret # None /\ rj.ret # None /\ qi.ret # None /\ qj.ret # None
           /\ rj.ret[1] >= ri.ret[1]
           /\ qj.ret[1] >= qi.ret[1]

\* A partly filled cache whose first two widths differ, after a width_until.
C2_Witness ==
  \E k \in DOMAIN windex :
    /\ last[k].op = "width_until"
    /\ Len(windex[k].char2width) >= 2
    /\ Len(windex[k].char2width) < Len(rope_line)
    /\ windex[k].char2width[1] < windex[k].char2width[2]

C4_WidthBetweenIsInclusive ==
  \A k \in DOMAIN windex :
    (last[k].op = "width_between" /\ last[k].a <= last[k].b /\ InRange(last[k].b)) =>
      /\ last[k].ret = Some(SumCharWidth(options, rope_line, last[k].a, last[k].b))
      /\ last[k].a = 0 => last[k].ret = AnswerNow(k, last[k].b).ret

C6_NoneIffOutOfRange ==
  \A k \in DOMAIN windex :
    last[k].op = "width_until" =>
      /\ last[k].panic = "none"
      /\ (last[k].ret = None) <=> ~InRange(last[k].a)

C6_OutOfRangeKeepsCache ==
  \A k \in DOMAIN windex :
    (last'[k].op = "width_until" /\ ~InRange(last'[k].a)) => windex'[k] = windex[k]

C7_ConsistencyCheck ==
  \A k \in DOMAIN windex :
    LET c2w == windex[k].char2width
        w2c == windex[k].width2char
    IN /\ last[k].panic # "internal_check"
       /\ Len(c2w) >= Cardinality(DOMAIN w2c)
       /\ \A i \in 1..(Len(c2w) - 1) : c2w[i] <= c2w[i + 1]
       /\ \A i \in 1..Len(c2w) : c2w[i] \in DOMAIN w2c /\ w2c[c2w[i]] >= i - 1

\* A whole line is cached after a width_between, two chars sharing a width.
C7_Witness ==
  \E k \in DOMAIN windex :
    /\ last[k].op = "width_between"
    /\ last[k].panic = "none"
    /\ Len(windex[k].char2width) = Len(rope_line)
    /\ Cardinality(DOMAIN windex[k].width2char) < Len(windex[k].char2width)

\* C8: width2char[w] is the largest cached char index whose cumulative width
\* is w.
C8_RightmostIndex ==
  \A k \in DOMAIN windex :
    LET c2w == windex[k].char2width
        w2c == windex[k].width2char
    IN \A w \in DOMAIN w2c :
         /\ w2c[w] \in 0..(Len(c2w) - 1)
         /\ c2w[w2c[w] + 1] = w
         /\ \A i \in 1..Len(c2w) : c2w[i] = w => i - 1 <= w2c[w]

\* A line-feed or carriage-return shares its cumulative width with the char
\* before it, and width2char holds its index.
C8_Witness ==
  \E k \in DOMAIN windex :
    LET c2w == windex[k].char2width
        w2c == windex[k].width2char
    IN \E i \in 1..(Len(c2w) - 1) :
         /\ rope_line[i + 1] \in {10, 13}
         /\ c2w[i] = c2w[i + 1]
         /\ c2w[i] > 0
         /\ w2c[c2w[i]] = i

C9_Step ==
  \A k \in DOMAIN windex :
    /\ IsPrefixOf(windex[k].char2width, windex'[k].char2width)
    /\ Len(windex'[k].char2width) <= Len(rope_line)
    /\ (last'[k].op = "width_until" /\ last'[k].ret # None) =>
         Len(windex'[k].char2width) = Max(Len(windex[k].char2width), last'[k].a + 1)

\* C9: a call keeps every entry of char2width and never shortens it, the
\* cache is never longer than the line, and after width_until(i) returned a
\* width the cache length is max(the length before, i + 1).
C9_AppendOnly == [][C9_Step]_vars

\* width_until(0) answered from a cache that holds the whole line.
C9_Witness ==
  \E k \in DOMAIN windex :
    /\ last[k].op = "width_until"
    /\ last[k].a = 0
    /\ last[k].ret # None
    /\ Len(rope_line) >= 2
    /\ Len(windex[k].char2width) = Len(rope_line)

----------------------------------------------------------------------------
(* Properties of the width model *)

\* The sum of the results of char_width over the chars of s, had none failed.
RECURSIVE SumOfCharWidth(_, _)
SumOfCharWidth(opts, s) ==
  IF s = << >> THEN 0 ELSE char_width(opts, Head(s)).ret + SumOfCharWidth(opts, Tail(s))

\* C10: char_width is total and returns the tab stop for a tab, 0 for
\* line-feed and carriage-return, the length of the escape glyph for another
\* ascii control code, 2 for an East-Asian wide char and 1 for any other
\* char; str_width is the sum of char_width over the chars, and char_symbol
\* returns the width of char_width.
C10_CharWidthTable ==
  /\ ucall.op # "none" => ~ucall.panic
  /\ ucall.op = "char_width" => ucall.ret = unicode_char_width(options, ucall.arg[1])
  /\ ucall.op = "str_width" => ucall.ret = SumOfCharWidth(options, ucall.arg)
  /\ ucall.op = "char_symbol" => ucall.ret = char_width(options, ucall.arg[1]).ret

----------------------------------------------------------------------------
(* Properties of the buffer ids *)

\* The ids handed out and not yet stored in a Buffer, and the ids of the Buffers.
IdsInUse ==
  {new_id[t][1] : t \in {u \in DOMAIN new_id : new_id[u] # None}}
    \cup {buffers[i].id : i \in 1..Len(buffers)}

\* C11: over any number of Buffer constructions, on any threads and across
\* the wrap-around of the 32-bit counter, no two Buffers have the same id,
\* every id is greater than 0, and the first id handed out is 1.
C11_UniqueIncreasingIds ==
  /\ \A i, j \in 1..Len(buffers) : i # j => buffers[i].id # buffers[j].id
  /\ \A id \in IdsInUse : id > 0
  /\ IdsInUse = {} => VALUE = 1

----------------------------------------------------------------------------
(* Properties of the viewport layout *)

Min(x, y) == IF x <= y THEN x ELSE y

\* collect_from_top_left has been called on a window with cells.
Collected ==
  /\ vcall.op = "collect_from_top_left"
  /\ vcall.height > 0
  /\ vcall.width > 0

\* The lines of the buffer, and the line with index l.
BufLines == rope_lines(buffer[1])
BufLine(l) == BufLines[l + 1]

\* The display width of the chars a..b-1 of a line (a half-open range).
DisplayWidth(line, a, b) == SumCharWidth(options, line, a, b - 1)

\* How many leading chars of the line fit in `width` cells.
LongestFit(line, width) ==
  CHOOSE n \in 0..Len(line) :
    /\ DisplayWidth(line, 0, n) <= width
    /\ \A m \in (n + 1)..Len(line) : DisplayWidth(line, 0, m) > width

\* C12: with a window of height 0 or width 0 the result is the default
\* rectangle and an empty map, whatever the options, the anchors and the
\* buffer, and the buffer is not read (a dropped buffer makes no difference).
C12_ZeroSizeIsEmpty ==
  (vcall.op = "collect_from_top_left" /\ (vcall.height = 0 \/ vcall.width = 0))
    => /\ vcall.panic = "none"
       /\ vcall.rectangle = ViewportRect_default
       /\ vcall.lines = << >>

\* A window of no width laid out on a dropped buffer, from a line and column past 0.
C12_Witness ==
  /\ vcall.op = "collect_from_top_left"
  /\ vcall.width = 0
  /\ vcall.height > 0
  /\ vcall.start_line > 0
  /\ vcall.start_bcolumn > 0
  /\ buffer = None
  /\ vcall.lines = << >>

\* C13: in every mode, a start line beyond the last line of the buffer gives
\* the default rectangle and an empty map.
C13_StartLineBeyondLast ==
  (Collected /\ buffer # None /\ vcall.start_line >= len_lines(buffer[1]))
    => /\ vcall.panic = "none"
       /\ vcall.rectangle.start_line = 0
       /\ vcall.rectangle.end_line = 0
       /\ vcall.lines = << >>

\* Mode A has been called on a live buffer, from a line of the buffer.
CollectedNowrap ==
  /\ Collected
  /\ ~vcall.wrap
  /\ buffer # None
  /\ vcall.start_line < len_lines(buffer[1])

\* What the call returned.
Returned == [panic |-> vcall.panic, rectangle |-> vcall.rectangle, lines |-> vcall.lines]

\* C14: mode A visits exactly min(H, L - s) lines from start line s of a
\* buffer of L lines in a window of height H; line s + k gets exactly one row,
\* with index k; end_line is s + min(H, L - s); line_break changes nothing.
C14_NowrapOneRowPerLine ==
  CollectedNowrap =>
    LET s == vcall.start_line
        n == Min(vcall.height, len_lines(buffer[1]) - s)
    IN /\ vcall.panic = "none"
       /\ DOMAIN vcall.lines = s..(s + n - 1)
       /\ \A k \in 0..(n - 1) : DOMAIN vcall.lines[s + k].rows = {k}
       /\ vcall.rectangle = [start_line |-> s, end_line |-> s + n]
       /\ \E build \in Builds :
            Returned = collect_from_top_left(build, options, FALSE, ~vcall.line_break,
                         buffer, vcall.height, vcall.width, s, vcall.start_bcolumn)

\* C15: mode A (from column 0) leaves the char that does not fit out of the
\* row; end_filled_columns is the number of unused cells at the end of the row,
\* the window width minus the width placed, and 0 when the line ends in the row.
C15_NowrapEndFilledColumns ==
  (CollectedNowrap /\ vcall.start_bcolumn = 0 /\ vcall.panic = "none") =>
    \A l \in DOMAIN vcall.lines :
      \A k \in DOMAIN vcall.lines[l].rows :
        LET row == vcall.lines[l].rows[k]
            placed == row.end_bcolumn - row.start_bcolumn
        IN /\ placed <= vcall.width
           /\ placed = DisplayWidth(BufLine(l), 0, LongestFit(BufLine(l), vcall.width))
           /\ vcall.lines[l].end_filled_columns =
                IF LongestFit(BufLine(l), vcall.width) < Len(BufLine(l))
                  THEN vcall.width - placed
                  ELSE 0

\* The char of the line that straddles display column c: it starts before c
\* and ends after it.  None when c falls between two chars or past the line.
Straddling(line, c) ==
  {j \in 0..(Len(line) - 1) :
     DisplayWidth(line, 0, j) < c /\ DisplayWidth(line, 0, j + 1) > c}

\* C16: mode A skips the chars that end at or before the start column (when
\* the line goes on past it); start_filled_columns is computed without
\* underflow, is at least 0, and is less than the width of the char that
\* straddles the start column (0 if none).
C16_NowrapStartFilledColumns ==
  CollectedNowrap =>
    /\ vcall.panic = "none"
    /\ \A l \in DOMAIN vcall.lines :
         LET line == BufLine(l)
             c == vcall.start_bcolumn
             fills == vcall.lines[l].start_filled_columns
         IN /\ fills >= 0
            /\ \A j \in Straddling(line, c) :
                 fills < DisplayWidth(line, j, j + 1)
            /\ Straddling(line, c) = {} => fills = 0
            /\ \A k \in DOMAIN vcall.lines[l].rows :
                 \A j \in 0..(Len(line) - 1) :
                   (DisplayWidth(line, 0, j + 1) <= c /\ DisplayWidth(line, 0, Len(line)) > c)
                     => vcall.lines[l].rows[k].start_char_idx > j

\* C17: mode A from column 0: the row of a line is the char range
\* [0, n) of the longest prefix of the line that fits in the window width,
\* and end_bcolumn - start_bcolumn is the width of those chars, at most the
\* window width; so for an empty line and a first char wider than the window.
C17_NowrapLongestPrefix ==
  (CollectedNowrap /\ vcall.start_bcolumn = 0 /\ vcall.panic = "none") =>
    \A l \in DOMAIN vcall.lines :
      \A k \in DOMAIN vcall.lines[l].rows :
        LET row == vcall.lines[l].rows[k]
            n == LongestFit(BufLine(l), vcall.width)
        IN /\ row.start_char_idx = 0
           /\ row.end_char_idx = n
           /\ row.end_bcolumn - row.start_bcolumn = DisplayWidth(BufLine(l), 0, n)
           /\ row.end_bcolumn - row.start_bcolumn <= vcall.width

\* Mode B has been called on a live buffer from a line of the buffer, and returned.
CollectedWrap ==
  /\ Collected
  /\ vcall.wrap
  /\ ~vcall.line_break
  /\ buffer # None
  /\ vcall.start_line < len_lines(buffer[1])
  /\ vcall.panic = "none"

\* The chars of the row: the half-open range it records.
RowChars(row) == row.start_char_idx..(row.end_char_idx - 1)

\* C18: in mode B the rows of a line are contiguous half-open ranges: the
\* first row starts at the first visible char (char 0 from column 0), and each
\* following row starts at the char index and at the display column where the
\* row before it ends, so that no char is skipped and none is in two rows.
C18_WrapRowsContiguous ==
  CollectedWrap =>
    \A l \in DOMAIN vcall.lines :
      LET rows == vcall.lines[l].rows IN
      /\ \A k \in DOMAIN rows :
           (k - 1 \notin DOMAIN rows /\ vcall.start_bcolumn = 0)
             => rows[k].start_char_idx = 0
      /\ \A k \in DOMAIN rows :
           (k + 1 \in DOMAIN rows)
             => /\ rows[k + 1].start_char_idx = rows[k].end_char_idx
                /\ rows[k + 1].start_bcolumn = rows[k].end_bcolumn

\* C19: in mode B no row holds part of a char: the chars of a row have a
\* display width of at most the window width, unless the row holds a single
\* char (with a width) that is wider than the window.
C19_WrapWholeChars ==
  CollectedWrap =>
    \A l \in DOMAIN vcall.lines :
      \A k \in DOMAIN vcall.lines[l].rows :
        LET row == vcall.lines[l].rows[k]
            line == BufLine(l)
            wide == {j \in RowChars(row) : DisplayWidth(line, j, j + 1) > 0}
        IN /\ row.end_char_idx <= Len(line)
           /\ \/ DisplayWidth(line, row.start_char_idx, row.end_char_idx) <= vcall.width
              \/ Cardinality(wide) = 1

\* The rows of line l whose range holds char j.
RowsOfChar(l, j) ==
  {k \in DOMAIN vcall.lines[l].rows : j \in RowChars(vcall.lines[l].rows[k])}

\* C20: in mode B a char wider than the window is in one row only, with no
\* other char of any width in that row, and a line that is just this char
\* (and its line break) has exactly one row.
C20_WrapWideCharOneRow ==
  CollectedWrap =>
    \A l \in DOMAIN vcall.lines :
      LET line == BufLine(l)
          rows == vcall.lines[l].rows
          wider == {j \in 0..(Len(line) - 1) : DisplayWidth(line, j, j + 1) > vcall.width}
      IN /\ \A j \in wider :
              /\ Cardinality(RowsOfChar(l, j)) <= 1
              /\ \A k \in RowsOfChar(l, j) :
                   \A i \in RowChars(rows[k]) \cap (0..(Len(line) - 1)) :
                     i # j => DisplayWidth(line, i, i + 1) = 0
         /\ (wider = {0} /\ Len(line) <= 2 /\ DisplayWidth(line, 0, Len(line)) = DisplayWidth(line, 0, 1))
              => Cardinality(DOMAIN rows) = 1

\* Mode C has been called on a live buffer from a line of the buffer, and returned.
CollectedLinebreak ==
  /\ Collected
  /\ vcall.wrap
  /\ vcall.line_break
  /\ buffer # None
  /\ vcall.start_line < len_lines(buffer[1])
  /\ vcall.panic = "none"

\* The text mode C takes from line l, and its word-boundary segments.
TruncatedLine(l) == truncate_line(BufLine(l), vcall.start_bcolumn, vcall.height * vcall.width * 4)

Words(l) == split_word_bounds(TruncatedLine(l))

\* The number of chars in the first n segments.
RECURSIVE WordsLen(_, _)
WordsLen(words, n) == IF n = 0 THEN 0 ELSE Len(words[n]) + WordsLen(words, n - 1)

\* The number of chars in the first k rows of a line.
RECURSIVE SectionsLen(_, _)
SectionsLen(sections, k) == IF k = 0 THEN 0 ELSE sections[k].chars_length + SectionsLen(sections, k - 1)

\* The display width of a segment.
WordWidth(wd) == wd_fold(options, wd).wd_width

\* C21: in mode C (from column 0) every row that is followed by another row
\* of the line ends at a segment edge, where the next segment did not fit in
\* the cells left in the row, or inside a segment that is wider than a row.
C21_LinebreakAtSegmentEdges ==
  (CollectedLinebreak /\ vcall.start_bcolumn = 0) =>
    \A l \in DOMAIN vcall.lines :
      LET sections == vcall.lines[l].rows
          words == Words(l)
      IN \A k \in 1..(Len(sections) - 1) :
           LET b == SectionsLen(sections, k) IN
           \/ \E n \in 1..Len(words) :
                /\ WordsLen(words, n - 1) = b
                /\ sections[k].chars_width + WordWidth(words[n]) > vcall.width
           \/ /\ b = WordsLen(words, Len(words))
           \/ \E n \in 1..Len(words) :
                /\ WordsLen(words, n - 1) < b
                /\ b < WordsLen(words, n)
                /\ WordWidth(words[n]) > vcall.width

\* The chars of the line from the first char that starts at or after display
\* column c, and from the char that holds display column c.
FromColumn(line, c) ==
  LET first == {j \in 0..Len(line) : j = Len(line) \/ DisplayWidth(line, 0, j) >= c}
      j == CHOOSE x \in first : \A y \in first : x <= y
  IN SubSeq(line, j + 1, Len(line))

FromCharAtColumn(line, c) ==
  LET first == {j \in 0..Len(line) : j = Len(line) \/ DisplayWidth(line, 0, j + 1) > c}
      j == CHOOSE x \in first : \A y \in first : x <= y
  IN SubSeq(line, j + 1, Len(line))

\* C22: the text mode C takes from a line has at most height * width * 4
\* chars and begins at the start display column: it is a prefix of the line
\* from that column on, and not empty when the line goes on past the column.
C22_LinebreakTruncatedLine ==
  CollectedLinebreak =>
    \A l \in DOMAIN vcall.lines :
      LET line == BufLine(l)
          taken == TruncatedLine(l)
          c == vcall.start_bcolumn
      IN /\ Len(taken) <= vcall.height * vcall.width * 4
         /\ \/ /\ IsPrefixOf(taken, FromColumn(line, c))
               /\ FromColumn(line, c) # << >> => taken # << >>
            \/ /\ IsPrefixOf(taken, FromCharAtColumn(line, c))
               /\ FromCharAtColumn(line, c) # << >> => taken # << >>

\* C23: in mode C (from column 0) no char is lost: the rows of a line, in row
\* order, count consecutive chars of the line (the width of each row is the
\* width of the chars it counts), and while the window has rows left every
\* char of the line that has a width is counted.
C23_LinebreakNoCharLost ==
  (CollectedLinebreak /\ vcall.start_bcolumn = 0) =>
    \A l \in DOMAIN vcall.lines :
      LET sections == vcall.lines[l].rows
          line == TruncatedLine(l)
          total == SectionsLen(sections, Len(sections))
      IN /\ total <= Len(line)
         /\ \A k \in 1..Len(sections) :
              SectionsLen(sections, k) <= Len(line) =>
                sections[k].chars_width =
                  DisplayWidth(line, SectionsLen(sections, k - 1), SectionsLen(sections, k))
         /\ sections[Len(sections)].row_idx < vcall.height =>
              \A j \in total..(Len(line) - 1) : DisplayWidth(line, j, j + 1) = 0

\* Any mode has been called on a live buffer from a line of the buffer, and returned.
CollectedAny ==
  /\ Collected
  /\ buffer # None
  /\ vcall.start_line < len_lines(buffer[1])
  /\ vcall.panic = "none"

ModeC == vcall.wrap /\ vcall.line_break

\* The row indexes recorded for line l, and how many rows are recorded for it.
RowIdxs(l) ==
  IF ModeC
    THEN {vcall.lines[l].rows[i].row_idx : i \in 1..Len(vcall.lines[l].rows)}
    ELSE DOMAIN vcall.lines[l].rows

RowCount(l) ==
  IF ModeC THEN Len(vcall.lines[l].rows) ELSE Cardinality(DOMAIN vcall.lines[l].rows)

AllRowIdxs == UNION {RowIdxs(l) : l \in DOMAIN vcall.lines}

RowsBefore(l) == UNION {RowIdxs(m) : m \in {n \in DOMAIN vcall.lines : n < l}}

\* C24: in every mode each recorded row index is below the window height, no
\* row index is recorded twice (in one line or in two), the row indexes are
\* 0..k-1 for some k <= height, and a line is in the result only if fewer
\* than height rows were recorded for the lines before it.
C24_RowIndexesInWindow ==
  CollectedAny =>
    /\ \A r \in AllRowIdxs : r < vcall.height
    /\ \A l \in DOMAIN vcall.lines : RowCount(l) = Cardinality(RowIdxs(l))
    /\ \A l, m \in DOMAIN vcall.lines : l # m => RowIdxs(l) \cap RowIdxs(m) = {}
    /\ \E k \in 0..vcall.height : AllRowIdxs = 0..(k - 1)
    /\ \A l \in DOMAIN vcall.lines : Cardinality(RowsBefore(l)) < vcall.height

\* The rows of line l cover no character.
CoversNoChar(l) ==
  IF ModeC
    THEN \A i \in 1..Len(vcall.lines[l].rows) : vcall.lines[l].rows[i].chars_length = 0
    ELSE \A r \in DOMAIN vcall.lines[l].rows :
           vcall.lines[l].rows[r].end_char_idx = vcall.lines[l].rows[r].start_char_idx

EmptyBufferCall ==
  /\ Collected
  /\ buffer = Some(<< >>)
  /\ vcall.height > 0
  /\ vcall.width > 0
  /\ vcall.start_line = 0
  /\ vcall.start_bcolumn = 0

\* C25: on an empty buffer with a window of positive height and width, each
\* mode returns without panic, reports start_line 0 and end_line 1, and the
\* result has exactly one line, line 0, with exactly one row, which covers no
\* character.
C25_EmptyBufferOneEmptyRow ==
  EmptyBufferCall =>
    /\ vcall.panic = "none"
    /\ vcall.rectangle.start_line = 0
    /\ vcall.rectangle.end_line = 1
    /\ DOMAIN vcall.lines = {0}
    /\ RowCount(0) = 1
    /\ CoversNoChar(0)

\* Line l of the result starts from its first char at display column 0: in
\* mode B its first row starts at char 0 and column 0 with no filled column,
\* in mode C its first row has the width of the first chars of the line.
StartsAtColumnZero(l) ==
  LET rows == vcall.lines[l].rows
  IN IF ModeC
       THEN rows # << >> =>
              rows[1].chars_width = DisplayWidth(BufLine(l), 0, rows[1].chars_length)
       ELSE /\ vcall.lines[l].start_filled_columns = 0
            /\ DOMAIN rows # {} =>
                 LET r == CHOOSE x \in DOMAIN rows : \A y \in DOMAIN rows : x <= y
                 IN rows[r].start_char_idx = 0 /\ rows[r].start_bcolumn = 0

\* C26: with wrap and a start column above 0, every line of the result after
\* the first starts from its first char at column 0.
C26_WrapOnlyFirstLineFromColumn ==
  (CollectedAny /\ vcall.wrap /\ vcall.start_bcolumn > 0) =>
    \A l \in DOMAIN vcall.lines : l > vcall.start_line => StartsAtColumnZero(l)

\* A viewport has been laid out and has a visited line.
ViewportWithLines ==
  /\ vcall.op \in {"collect_from_top_left", "new"}
  /\ vcall.panic = "none"
  /\ DOMAIN vcall.lines # {}

\* C28: the keys of the lines map of a viewport with a visited line are the
\* line indexes start_line..end_line-1 of its rectangle, none missing, from the
\* start line asked for; a viewport built by Viewport::new starts at line 0
\* and column 0.
C28_LinesKeysAreStartToEnd ==
  /\ ViewportWithLines =>
       /\ DOMAIN vcall.lines = vcall.rectangle.start_line..(vcall.rectangle.end_line - 1)
       /\ vcall.rectangle.start_line = vcall.start_line
       /\ vcall.rectangle.start_line < vcall.rectangle.end_line
  /\ (vcall.op = "new" /\ vcall.panic = "none") =>
       /\ vcall.rectangle.start_line = 0
       /\ vcall.start_bcolumn = 0
       /\ ModeC /\ vcall.height > 0 /\ vcall.width > 0 /\ buffer # None =>
            vcall.rectangle.start_bcolumn = 0

C28_Witness ==
  /\ ViewportWithLines
  /\ vcall.op = "new"
  /\ Cardinality(DOMAIN vcall.lines) = 2

\* The nodes of the subtree of `node` in pre-order: the node, then the
\* subtrees of its children one after the other, in the given order.
RECURSIVE PreOrder(_, _)
RECURSIVE PreOrderAll(_, _)
PreOrder(node, order) ==
  << node >> \o PreOrderAll(IF order = "Ascent" THEN itree.children[node]
                            ELSE Reverse(itree.children[node]), order)

PreOrderAll(nodes, order) ==
  IF nodes = << >> THEN << >>
  ELSE PreOrder(Head(nodes), order) \o PreOrderAll(Tail(nodes), order)

TreePreOrder(order) == IF itree.root = None THEN << >> ELSE PreOrder(itree.root[1], order)

\* C29: the nodes an iterator from the root has yielded so far are the first
\* nodes of the tree in pre-order (children ascending for Ascent, reversed for
\* Descent), and when it has returned None they are all the nodes of the tree,
\* each once.
C29_IteratorYieldsPreOrder ==
  iter.op # "none" =>
    /\ IsPrefixOf(iter.yielded, TreePreOrder(iter.order))
    /\ iter.ended => iter.yielded = TreePreOrder(iter.order)

InFrame(f, pos) == pos.x < f.size.width /\ pos.y < f.size.height

\* C30: a frame stores width * height cells, when new and after every
\* operation; set_cell(p, c) at a position of the frame makes cell(p) return c
\* and leaves the cell of every other position of the frame as it was; a new
\* frame has no dirty cell, and reset_dirty leaves none.
C30_FrameCellsAndDirty ==
  /\ Len(frame.cells) = frame.size.width * frame.size.height
  /\ frame.dirty_cells = << >>
  /\ [][/\ frame'.panic = "none" =>
             Len(frame'.cells) = frame'.size.width * frame'.size.height
        /\ \A pos \in Positions, c \in Cells :
             (Frame_set_cell(pos, c) /\ InFrame(frame, pos)) =>
               /\ frame'.panic = "none"
               /\ cell(frame', pos) = c
               /\ \A q \in Positions :
                    (InFrame(frame, q) /\ q # pos) => cell(frame', q) = cell(frame, q)
        /\ Frame_reset_dirty => (frame'.dirty_cells = << >> /\ ~frame'.dirty_cursor)]_vars

\* Layout thread t holds the read lock exactly while it scans, and every line
\* it has read in one call came from one text.
HoldsWhileScanning(t) ==
  /\ thread[t].pc = "scan" <=> t \in lock.readers
  /\ thread[t].pc = "rlock" => thread[t].reads = 0
  /\ ~thread[t].torn

LockDiscipline ==
  /\ thread # << >> => \A t \in LayoutThreads : HoldsWhileScanning(t)
  /\ lock.writer # {} => lock.readers = {}

====
